---- MODULE Spec2Model ----
(***************************************************************************)
(* Model of the OCR HTTP service in src/server/ocr_service/main.py.        *)
(*                                                                         *)
(* The service is one asyncio event loop (uvicorn.run, one worker).  Both  *)
(* endpoints are `async def`, so a handler runs on the loop without        *)
(* interruption except at an `await`.  perform_ocr has a single await      *)
(* (file.read()); everything after it, including engine construction and   *)
(* inference, is synchronous code that keeps the loop.  The variable       *)
(* `loop` holds the request whose synchronous section is running.          *)
(***************************************************************************)
EXTENDS Integers, Sequences, FiniteSets, TLC

\* ---------------------------------------------------------------- bounds
NumReq == 2            \* /ocr requests that may be in flight
MaxDet == 2            \* longest detection list the engine returns
MaxHealth == 1         \* GET /health calls that are counted

\* ------------------------------------------------------------- constants
MinPngLen == 67        \* main.py:66  content_len < 67
MinDim == 5            \* main.py:86  h < 5 or w < 5

Reqs == 1..NumReq
NoReq == 0             \* the event loop is idle
None == 0              \* ocr = None (instances are numbered from 1)

\* ---------------------------------------------------------------- inputs
Lens == {0, 1, MinPngLen - 1, MinPngLen}
Dims == {0, MinDim - 1, MinDim}

NoImg == [none |-> TRUE, h |-> 0, w |-> 0]
Images == {[none |-> FALSE, h |-> a, w |-> b] : a \in Dims, b \in Dims}
DecodeOutcomes == {NoImg} \cup Images

\* polygons as the engine returns them
B1 == <<<<0, 0>>, <<4, 0>>, <<4, 2>>, <<0, 2>>>>
B2 == <<<<1, 3>>, <<5, 3>>, <<5, 6>>, <<1, 6>>>>

\* confidences: a Python float (val in hundredths), a Python int (val in
\* units), a numeric string ("0.90") and a non-numeric string
CFloat == [kind |-> "float", val |-> 90]
CInt == [kind |-> "int", val |-> 1]
CNumStr == [kind |-> "numstr", val |-> 90]
CBadStr == [kind |-> "badstr", val |-> 0]

\* a line is [box, (text, confidence)]
WellFormedLines == {<<B1, <<"HELLO", CFloat>>>>, <<B2, <<"world", CInt>>>>}
MalformedLines == {<<B1, <<"HELLO">>>>, <<B2, <<"x", CNumStr>>>>,
                   <<B2, <<"y", CBadStr>>>>}
Lines == WellFormedLines \cup MalformedLines

SeqsUpTo(S, n) == UNION {[1..k -> S] : k \in 0..n}

\* engine.ocr() output: None, or a list of pages, a page being None or a
\* list of lines
NonePage == [none |-> TRUE, lines |-> <<>>]
Page(ls) == [none |-> FALSE, lines |-> ls]
NoneResult == [none |-> TRUE, pages |-> <<>>]
ListResult(ps) == [none |-> FALSE, pages |-> ps]
\* The loop of main.py:96-104 stops at the first line that raises, so the
\* lines after a malformed one are never looked at: the outputs are the
\* lists of well-formed lines, and those lists ending in one malformed line.
LineLists ==
    SeqsUpTo(WellFormedLines, MaxDet)
    \cup {Append(ls, m) : ls \in SeqsUpTo(WellFormedLines, MaxDet - 1),
                          m \in MalformedLines}
EngineResults ==
    {NoneResult, ListResult(<<>>), ListResult(<<NonePage>>)}
    \cup {ListResult(<<Page(ls)>>) : ls \in LineLists}

VARIABLES ocr, ctorCount, ctorFailed, loop, pc, content_len, decodeTried,
          img, engine, result, inferred, resp, respCount, escaped, raced,
          healthResp, healthCount, healthAt

vars == <<ocr, ctorCount, ctorFailed, loop, pc, content_len, decodeTried,
          img, engine, result, inferred, resp, respCount, escaped, raced,
          healthResp, healthCount, healthAt>>

engineVars == <<ocr, ctorCount, ctorFailed>>
localVars == <<content_len, decodeTried, img, engine, result, inferred>>
healthVars == <<healthResp, healthCount, healthAt>>

NoBody == <<>>

Init ==
    /\ ocr = None
    /\ ctorCount = 0
    /\ ctorFailed = FALSE
    /\ loop = NoReq
    /\ pc = [r \in Reqs |-> "idle"]
    /\ content_len = [r \in Reqs |-> -1]
    /\ decodeTried = [r \in Reqs |-> FALSE]
    /\ img = [r \in Reqs |-> NoImg]
    /\ engine = [r \in Reqs |-> None]
    /\ result = [r \in Reqs |-> NoneResult]
    /\ inferred = [r \in Reqs |-> FALSE]
    /\ resp = [r \in Reqs |-> NoBody]
    /\ respCount = [r \in Reqs |-> 0]
    /\ escaped = [r \in Reqs |-> FALSE]
    /\ raced = FALSE
    /\ healthResp = NoBody
    /\ healthCount = 0
    /\ healthAt = "never"


\* ------------------------------------------------------- response bodies
\* main.py:110  {"error": str(e), "results": []}
ExceptBody(e) == [error |-> e, results |-> <<>>]

\* main.py:88  the f-string "Image {w}x{h} too small"
WarningText(w, h) == <<"Image ", w, "x", h, " too small">>

\* ------------------------------------------------------------ validation
\* main.py:60-88.  Given the payload length and what cv2.imdecode makes of
\* the payload, the outcome of the validation stages: whether the request
\* goes on to the engine, whether imdecode was called, and the body
\* returned when it does not go on.
ValidationNoReturnOnSmall(n, d) ==
    IF n = 0 THEN
        [pass |-> FALSE, decoded |-> FALSE,
         body |-> [error |-> "Empty data received", results |-> <<>>]]
    ELSE IF n < MinPngLen THEN
        [pass |-> FALSE, decoded |-> FALSE,
         body |-> [error |-> "Data too small to be valid image",
                   results |-> <<>>]]
    ELSE IF d.none THEN
        [pass |-> FALSE, decoded |-> TRUE,
         body |-> [error |-> "Could not decode image", results |-> <<>>]]
    ELSE IF d.h = 0 \/ d.w = 0 THEN
        [pass |-> FALSE, decoded |-> TRUE,
         body |-> [error |-> "Empty image received", results |-> <<>>]]
    ELSE
        [pass |-> TRUE, decoded |-> TRUE, body |-> NoBody]

ValidationSmallBeforeZero(n, d) ==
    IF n = 0 THEN
        [pass |-> FALSE, decoded |-> FALSE,
         body |-> [error |-> "Empty data received", results |-> <<>>]]
    ELSE IF n < MinPngLen THEN
        [pass |-> FALSE, decoded |-> FALSE,
         body |-> [error |-> "Data too small to be valid image",
                   results |-> <<>>]]
    ELSE IF d.none THEN
        [pass |-> FALSE, decoded |-> TRUE,
         body |-> [error |-> "Could not decode image", results |-> <<>>]]
    ELSE IF d.h < MinDim \/ d.w < MinDim THEN
        [pass |-> FALSE, decoded |-> TRUE,
         body |-> [error |-> "Image too small for OCR", results |-> <<>>,
                   warning |-> WarningText(d.w, d.h)]]
    ELSE IF d.h = 0 \/ d.w = 0 THEN
        [pass |-> FALSE, decoded |-> TRUE,
         body |-> [error |-> "Empty image received", results |-> <<>>]]
    ELSE
        [pass |-> TRUE, decoded |-> TRUE, body |-> NoBody]

ValidationNoWarning(n, d) ==
    IF n = 0 THEN
        [pass |-> FALSE, decoded |-> FALSE,
         body |-> [error |-> "Empty data received", results |-> <<>>]]
    ELSE IF n < MinPngLen THEN
        [pass |-> FALSE, decoded |-> FALSE,
         body |-> [error |-> "Data too small to be valid image",
                   results |-> <<>>]]
    ELSE IF d.none THEN
        [pass |-> FALSE, decoded |-> TRUE,
         body |-> [error |-> "Could not decode image", results |-> <<>>]]
    ELSE IF d.h = 0 \/ d.w = 0 THEN
        [pass |-> FALSE, decoded |-> TRUE,
         body |-> [error |-> "Empty image received", results |-> <<>>]]
    ELSE IF d.h < MinDim \/ d.w < MinDim THEN
        [pass |-> FALSE, decoded |-> TRUE,
         body |-> [error |-> "Image too small for OCR", results |-> <<>>]]
    ELSE
        [pass |-> TRUE, decoded |-> TRUE, body |-> NoBody]

Validation(n, d) ==
    IF n = 0 THEN
        [pass |-> FALSE, decoded |-> FALSE,
         body |-> [error |-> "Empty data received", results |-> <<>>]]
    ELSE IF n < MinPngLen THEN
        [pass |-> FALSE, decoded |-> FALSE,
         body |-> [error |-> "Data too small to be valid image",
                   results |-> <<>>]]
    ELSE IF d.none THEN
        [pass |-> FALSE, decoded |-> TRUE,
         body |-> [error |-> "Could not decode image", results |-> <<>>]]
    ELSE IF d.h = 0 \/ d.w = 0 THEN
        [pass |-> FALSE, decoded |-> TRUE,
         body |-> [error |-> "Empty image received", results |-> <<>>]]
    ELSE IF d.h < MinDim \/ d.w < MinDim THEN
        [pass |-> FALSE, decoded |-> TRUE,
         body |-> [error |-> "Image too small for OCR", results |-> <<>>,
                   warning |-> WarningText(d.w, d.h)]]
    ELSE
        [pass |-> TRUE, decoded |-> TRUE, body |-> NoBody]

\* ------------------------------------------------------------ formatting
\* float(confidence), main.py:101: an int or a numeric string converts, any
\* other string raises ValueError
FloatRaises(c) == c.kind = "badstr"
PyFloat(c) ==
    IF c.kind = "int" THEN [kind |-> "float", val |-> c.val * 100]
    ELSE [kind |-> "float", val |-> c.val]

\* f"{confidence:.2f}", main.py:104: the f-string is evaluated whatever the
\* log level; the format code 'f' raises ValueError for a str
FormatSpecRaises(c) == c.kind \in {"numstr", "badstr"}

\* one pass of the loop body, main.py:97-104: the exception it raises ("" if
\* none) and the entry it appends
LineExc(line) ==
    IF Len(line[2]) # 2 THEN "not enough values to unpack"
    ELSE IF FloatRaises(line[2][2]) THEN "could not convert string to float"
    ELSE IF FormatSpecRaises(line[2][2]) THEN "Unknown format code 'f'"
    ELSE ""

LineEntry(line) ==
    [text |-> line[2][1], confidence |-> PyFloat(line[2][2]), box |-> line[1]]

RECURSIVE FormatLinesPrepends(_)
FormatLinesPrepends(ls) ==
    IF ls = <<>> THEN [exc |-> "", out |-> <<>>]
    ELSE LET e == LineExc(Head(ls)) IN
         IF e # "" THEN [exc |-> e, out |-> <<>>]
         ELSE LET rest == FormatLinesPrepends(Tail(ls)) IN
              IF rest.exc # "" THEN rest
              ELSE [exc |-> "", out |-> rest.out \o <<LineEntry(Head(ls))>>]

\* main.py:96-104: the loop over result[0]; the first exception ends it
RECURSIVE FormatLines(_)
FormatLines(ls) ==
    IF ls = <<>> THEN [exc |-> "", out |-> <<>>]
    ELSE LET e == LineExc(Head(ls)) IN
         IF e # "" THEN [exc |-> e, out |-> <<>>]
         ELSE LET rest == FormatLines(Tail(ls)) IN
              IF rest.exc # "" THEN rest
              ELSE [exc |-> "", out |-> <<LineEntry(Head(ls))>> \o rest.out]

\* main.py:95  `if result and result[0]`: None and the empty list are falsy,
\* and `and` does not evaluate result[0] when result is falsy
Truthy(x, items) == ~x.none /\ items # <<>>

HasDetectionsNoGuard(res) ==
    [exc |-> IF res.none THEN "'NoneType' object is not subscriptable"
             ELSE IF res.pages = <<>> THEN "list index out of range"
             ELSE "",
     yes |-> Truthy(res, res.pages)
             /\ Truthy(res.pages[1], res.pages[1].lines)]

HasDetections(res) ==
    [exc |-> "",
     yes |-> Truthy(res, res.pages)
             /\ Truthy(res.pages[1], res.pages[1].lines)]

\* main.py:94-107
FormatResults(res) ==
    LET t == HasDetections(res) IN
    IF t.exc # "" THEN [exc |-> t.exc, out |-> <<>>]
    ELSE IF t.yes THEN FormatLines(res.pages[1].lines)
    ELSE [exc |-> "", out |-> <<>>]

\* --------------------------------------------------------------- actions
\* a `return body` of perform_ocr: the one response of request r
Return(r, body) ==
    /\ resp' = [resp EXCEPT ![r] = body]
    /\ respCount' = [respCount EXCEPT ![r] = @ + 1]
    /\ pc' = [pc EXCEPT ![r] = "done"]
    /\ loop' = NoReq
    /\ escaped' = escaped

RaiseEscapes(r, e) ==
    /\ escaped' = [escaped EXCEPT ![r] = TRUE]
    /\ pc' = [pc EXCEPT ![r] = "done"]
    /\ loop' = NoReq
    /\ UNCHANGED <<resp, respCount>>

\* main.py:108-110  `except Exception as e`: an exception raised anywhere
\* in the try body becomes the error body
Raise(r, e) == Return(r, ExceptBody(e))

\* request o has arrived and has not been answered
InFlight(o) == pc[o] \notin {"idle", "done"}

\* main.py:53-56  the request arrives and the handler suspends in
\* `await file.read()`; requests are numbered in their order of arrival
Arrive(r) ==
    /\ pc[r] = "idle"
    /\ \A o \in Reqs : o < r => pc[o] # "idle"
    /\ loop = NoReq
    /\ pc' = [pc EXCEPT ![r] = "read"]
    /\ raced' = (raced \/ (ocr = None /\ \E o \in Reqs \ {r} : InFlight(o)))
    /\ UNCHANGED <<loop, resp, respCount, escaped, engineVars, localVars,
                   healthVars>>

\* main.py:56  file.read() raises
ReadRaise(r) ==
    /\ pc[r] = "read"
    /\ loop = NoReq
    /\ Raise(r, "read failed")
    /\ UNCHANGED <<engineVars, localVars, healthVars, raced>>

\* main.py:56-90  the read completes and the handler takes the loop; the
\* payload has length n and cv2.imdecode makes d of it
Validate(r) ==
    /\ pc[r] = "read"
    /\ loop = NoReq
    /\ \E n \in Lens, d \in DecodeOutcomes :
         LET v == Validation(n, d) IN
         /\ content_len' = [content_len EXCEPT ![r] = n]
         /\ decodeTried' = [decodeTried EXCEPT ![r] = v.decoded]
         /\ img' = [img EXCEPT ![r] = IF v.decoded THEN d ELSE NoImg]
         /\ IF v.pass
            THEN /\ pc' = [pc EXCEPT ![r] = "getocr"]
                 /\ loop' = r
                 /\ UNCHANGED <<resp, respCount, escaped>>
            ELSE Return(r, v.body)
    /\ UNCHANGED <<engineVars, engine, result, inferred, healthVars, raced>>

\* main.py:91, 38-45  get_ocr(): the handle is returned when it is set,
\* else the constructor is entered
GetOcr(r) ==
    /\ pc[r] = "getocr"
    /\ loop = r
    /\ IF ocr = None
       THEN /\ ctorCount' = ctorCount + 1
            /\ pc' = [pc EXCEPT ![r] = "ctor"]
            /\ UNCHANGED engine
       ELSE /\ engine' = [engine EXCEPT ![r] = ocr]
            /\ pc' = [pc EXCEPT ![r] = "infer"]
            /\ UNCHANGED ctorCount
    /\ UNCHANGED <<ocr, ctorFailed, loop, resp, respCount, escaped,
                   content_len, decodeTried, img, result, inferred, healthVars, raced>>

\* main.py:45-46, 50  PaddleOCR(lang='en') returns a new instance
CtorReturn(r) ==
    /\ pc[r] = "ctor"
    /\ loop = r
    /\ ocr' = ctorCount
    /\ engine' = [engine EXCEPT ![r] = ctorCount]
    /\ pc' = [pc EXCEPT ![r] = "infer"]
    /\ UNCHANGED <<ctorCount, ctorFailed, loop, resp, respCount, escaped,
                   content_len, decodeTried, img, result, inferred, healthVars, raced>>

\* main.py:47-49  PaddleOCR(lang='en') raises; get_ocr logs and re-raises,
\* the handle stays None
CtorRaise(r) ==
    /\ pc[r] = "ctor"
    /\ loop = r
    /\ ctorFailed' = TRUE
    /\ Raise(r, "PaddleOCR init failed")
    /\ UNCHANGED <<ocr, ctorCount, localVars, healthVars, raced>>

\* main.py:92  engine.ocr(img, cls=False) returns
InferReturn(r) ==
    /\ pc[r] = "infer"
    /\ loop = r
    /\ \E res \in EngineResults : result' = [result EXCEPT ![r] = res]
    /\ inferred' = [inferred EXCEPT ![r] = TRUE]
    /\ pc' = [pc EXCEPT ![r] = "format"]
    /\ UNCHANGED <<engineVars, loop, resp, respCount, escaped, content_len,
                   decodeTried, img, engine, healthVars, raced>>

\* main.py:92  engine.ocr(img, cls=False) raises
InferRaise(r) ==
    /\ pc[r] = "infer"
    /\ loop = r
    /\ Raise(r, "inference failed")
    /\ UNCHANGED <<engineVars, localVars, healthVars, raced>>

\* main.py:94-107  the detections are formatted and returned
Format(r) ==
    /\ pc[r] = "format"
    /\ loop = r
    /\ LET f == FormatResults(result[r]) IN
         IF f.exc # "" THEN Raise(r, f.exc)
         ELSE Return(r, [results |-> f.out])
    /\ UNCHANGED <<engineVars, localVars, healthVars, raced>>

\* the state of the engine handle
EngineState ==
    IF ocr # None THEN "constructed"
    ELSE IF ctorFailed THEN "failed" ELSE "unset"

HealthCallsGetOcr ==
    /\ loop = NoReq
    /\ healthCount < MaxHealth
    /\ healthCount' = healthCount + 1
    /\ healthAt' = EngineState
    /\ healthResp' = [status |-> "ok"]
    /\ IF ocr = None
       THEN ocr' = ctorCount + 1 /\ ctorCount' = ctorCount + 1
       ELSE UNCHANGED <<ocr, ctorCount>>
    /\ UNCHANGED <<ctorFailed, loop, pc, resp, respCount, escaped, localVars,
                   raced>>

\* main.py:112-114  GET /health
Health ==
    /\ loop = NoReq
    /\ healthCount < MaxHealth
    /\ healthCount' = healthCount + 1
    /\ healthAt' = EngineState
    /\ healthResp' = [status |-> "ok"]
    /\ UNCHANGED <<engineVars, loop, pc, resp, respCount, escaped, localVars,
                   raced>>

Next ==
    \/ \E r \in Reqs : Arrive(r)
    \/ \E r \in Reqs : ReadRaise(r)
    \/ \E r \in Reqs : Validate(r)
    \/ \E r \in Reqs : GetOcr(r)
    \/ \E r \in Reqs : CtorReturn(r)
    \/ \E r \in Reqs : CtorRaise(r)
    \/ \E r \in Reqs : InferReturn(r)
    \/ \E r \in Reqs : InferRaise(r)
    \/ \E r \in Reqs : Format(r)
    \/ Health

Spec == Init /\ [][Next]_vars

\* ---------------------------------------------------------------- claims
Done(r) == pc[r] = "done"

\* C1: when two or more /ocr requests were in flight together while the
\* handle was unset, the PaddleOCR constructor is executed at most once in
\* the process lifetime and all requests that reach inference use the same
\* instance.
C1_ConstructedAtMostOnce ==
    raced =>
        /\ ctorCount <= 1
        /\ \A a, b \in Reqs :
             (engine[a] # None /\ engine[b] # None) => engine[a] = engine[b]

\* C2: once construction has failed the constructor is never entered again,
\* and every later request that passes validation is answered with that
\* failure.
C2_FailureRecorded ==
    [][ctorFailed =>
         /\ ctorCount' = ctorCount
         /\ \A r \in Reqs :
              (pc[r] = "getocr" /\ pc'[r] # "getocr") =>
                  /\ pc'[r] = "done"
                  /\ resp'[r] = ExceptBody("PaddleOCR init failed")]_vars

\* C3: every /ocr request ends with exactly one response body and no
\* escaping exception; the body has a results list, and when it has an
\* error field the results list is empty.
WellShaped(b) ==
    /\ "results" \in DOMAIN b
    /\ "error" \in DOMAIN b => b.results = <<>>

C3_OneWellShapedBody ==
    \A r \in Reqs :
        /\ ~escaped[r]
        /\ respCount[r] = (IF Done(r) THEN 1 ELSE 0)
        /\ Done(r) => WellShaped(resp[r])

C3_Witness ==
    \E a, b \in Reqs :
        /\ Done(a) /\ Done(b)
        /\ resp[a] = ExceptBody("PaddleOCR init failed")
        /\ inferred[b]
        /\ resp[b] = ExceptBody("not enough values to unpack")

\* the decoded image of request r has non-zero dimensions of which one is
\* below the minimum
SmallImage(r) ==
    /\ Done(r) /\ decodeTried[r] /\ ~img[r].none
    /\ img[r].h # 0 /\ img[r].w # 0
    /\ (img[r].h < MinDim \/ img[r].w < MinDim)

\* C4 as stated: a decoded image with a non-zero dimension below 5 is
\* answered with empty results, a non-empty warning and no error field.
C4_SmallImageNoError ==
    \A r \in Reqs : SmallImage(r) =>
        /\ resp[r].results = <<>>
        /\ "warning" \in DOMAIN resp[r] /\ resp[r].warning # <<>>
        /\ "error" \notin DOMAIN resp[r]

\* C4 amended: a decoded image with a non-zero dimension below 5 is
\* answered with empty results, a non-empty warning that carries the image's
\* width and height, and the error field "Image too small for OCR".
C4_SmallImageWarning ==
    \A r \in Reqs : SmallImage(r) =>
        /\ resp[r].results = <<>>
        /\ "warning" \in DOMAIN resp[r] /\ resp[r].warning # <<>>
        /\ resp[r].warning[2] = img[r].w /\ resp[r].warning[4] = img[r].h
        /\ "error" \in DOMAIN resp[r]
        /\ resp[r].error = "Image too small for OCR"

C4_Witness ==
    \E r \in Reqs : SmallImage(r) /\ img[r].h = MinDim /\ img[r].w = MinDim - 1

\* a payload of length n that decodes to d fails a validation stage
FailsValidation(n, d) ==
    n < MinPngLen \/ d.none \/ d.h < MinDim \/ d.w < MinDim

\* C5: a request that fails a validation stage is answered at once: it does
\* not go on to get_ocr or inference, and the engine handle and the number
\* of constructions are the same before and after.
C5_RejectedRunsNothing ==
    [][\A r \in Reqs :
         (pc[r] = "read" /\ content_len'[r] >= 0
          /\ FailsValidation(content_len'[r], img'[r])) =>
             /\ pc'[r] = "done"
             /\ engine'[r] = None /\ ~inferred'[r]
             /\ ocr' = ocr /\ ctorCount' = ctorCount
             /\ ctorFailed' = ctorFailed]_vars

C5_Witness ==
    \E r \in Reqs :
        /\ Done(r) /\ content_len[r] >= MinPngLen /\ decodeTried[r]
        /\ ~img[r].none /\ img[r].h = MinDim - 1
        /\ engine[r] = None
        /\ ocr # None

\* C6: the checks run in the order length, decode, zero dimension, minimum
\* dimension and the first that fails decides the body: length 0 gives
\* "Empty data received", length 1..66 "Data too small to be valid image"
\* with no decode attempt, an undecodable payload of 67 or more bytes "Could
\* not decode image", and a zero dimension "Empty image received".
C6_FirstFailingCheckDecides ==
    \A r \in Reqs : content_len[r] >= 0 =>
        /\ content_len[r] = 0 =>
             /\ Done(r) /\ ~decodeTried[r]
             /\ resp[r] = [error |-> "Empty data received", results |-> <<>>]
        /\ (content_len[r] >= 1 /\ content_len[r] <= MinPngLen - 1) =>
             /\ Done(r) /\ ~decodeTried[r]
             /\ resp[r] = [error |-> "Data too small to be valid image",
                           results |-> <<>>]
        /\ content_len[r] >= MinPngLen =>
             /\ decodeTried[r]
             /\ img[r].none =>
                  /\ Done(r)
                  /\ resp[r] = [error |-> "Could not decode image",
                                results |-> <<>>]
             /\ (~img[r].none /\ (img[r].h = 0 \/ img[r].w = 0)) =>
                  /\ Done(r)
                  /\ resp[r] = [error |-> "Empty image received",
                                results |-> <<>>]

C6_Witness ==
    \E a, b \in Reqs :
        /\ Done(a) /\ decodeTried[a] /\ ~img[a].none
        /\ img[a].h = 0 /\ img[a].w = MinDim - 1
        /\ resp[a].error = "Empty image received"
        /\ Done(b) /\ content_len[b] = MinPngLen - 1 /\ ~decodeTried[b]

\* C7: while one request is inside engine construction or inference, the
\* validation of another request that has arrived can proceed.
C7_ValidationNotBlocked ==
    \A a, b \in Reqs :
        (a # b /\ pc[a] \in {"ctor", "infer"} /\ pc[b] = "read") =>
            ENABLED Validate(b)

\* C8: in every engine state GET /health answers {"status": "ok"}, and
\* answering it changes neither the engine handle nor the number of
\* constructions.
C8_HealthIndependent ==
    [][healthCount' # healthCount =>
         /\ healthResp' = [status |-> "ok"]
         /\ ocr' = ocr /\ ctorCount' = ctorCount
         /\ ctorFailed' = ctorFailed]_vars

C8_Witness ==
    /\ healthCount > 0
    /\ healthAt = "failed"
    /\ healthResp = [status |-> "ok"]
    /\ ocr = None

\* the engine reported no detection
ZeroDetections(res) ==
    \/ res.none
    \/ res.pages = <<>>
    \/ res.pages[1].none
    \/ res.pages[1].lines = <<>>

\* C9: a validated request for which the engine reports zero detections
\* (None, [], [None] or [[]]) is answered exactly {"results": []}.
C9_NoDetectionsEmptyResults ==
    \A r \in Reqs :
        (Done(r) /\ inferred[r] /\ ZeroDetections(result[r])) =>
            resp[r] = [results |-> <<>>]

C9_Witness ==
    \E a, b \in Reqs :
        /\ Done(a) /\ inferred[a] /\ result[a] = NoneResult
        /\ resp[a] = [results |-> <<>>]
        /\ Done(b) /\ inferred[b] /\ result[b] = ListResult(<<NonePage>>)
        /\ resp[b] = [results |-> <<>>]

\* the numeric value of a confidence, in hundredths
Num(c) == IF c.kind = "int" THEN c.val * 100 ELSE c.val

\* the lines of an engine result, all of them well-formed
WellFormedOutput(res) ==
    /\ ~ZeroDetections(res)
    /\ \A i \in 1..Len(res.pages[1].lines) :
         res.pages[1].lines[i] \in WellFormedLines

\* C10: for an engine output of n well-formed detections the response has
\* no error and exactly n results in engine order, the i-th with the text
\* and polygon of the i-th detection unchanged and its confidence as a float.
C10_ResultsMirrorDetections ==
    \A r \in Reqs :
        (Done(r) /\ inferred[r] /\ WellFormedOutput(result[r])) =>
            LET ls == result[r].pages[1].lines IN
            /\ DOMAIN resp[r] = {"results"}
            /\ Len(resp[r].results) = Len(ls)
            /\ \A i \in 1..Len(ls) :
                 /\ resp[r].results[i].text = ls[i][2][1]
                 /\ resp[r].results[i].box = ls[i][1]
                 /\ resp[r].results[i].confidence.kind = "float"
                 /\ resp[r].results[i].confidence.val = Num(ls[i][2][2])

C10_Witness ==
    \E r \in Reqs :
        /\ Done(r) /\ inferred[r] /\ WellFormedOutput(result[r])
        /\ Len(result[r].pages[1].lines) = 2
        /\ result[r].pages[1].lines[1] # result[r].pages[1].lines[2]
        /\ Len(resp[r].results) = 2

====
